---------------------------- MODULE Spec2Model ----------------------------
(***************************************************************************)
(* Brand Rebuild project tracker (App.tsx and its views).                  *)
(*                                                                         *)
(* The model keeps the React state of App (the stores and the filter       *)
(* settings) and the two pieces of GanttView state that carry a task       *)
(* between two user actions (editingTask, taskToDelete).  Everything       *)
(* computed by useMemo is a state function of the same name.               *)
(*                                                                         *)
(* Dates are ISO "YYYY-MM-DD" strings exactly as in the source; toDate     *)
(* turns one into a time value.  new Date("YYYY-MM-DD") is UTC midnight,   *)
(* so the time value is a whole number of days; it is kept in hours since  *)
(* KICKOFF to stay inside TLC's integers.  Only well-formed dates are      *)
(* drawn for the date picker and the create dialog; the edit dialog also   *)
(* produces the empty string (a cleared input).                            *)
(*                                                                         *)
(* The task catalog is cut down to three entries of allProjectTasks, in    *)
(* catalog order: a task with five weighted subtasks (foundations, the     *)
(* one seeded with sample data), a task with two (product_id) and a task   *)
(* without subtask definitions whose start equals its end (go_live).       *)
(***************************************************************************)
EXTENDS Integers, Sequences, FiniteSets, TLC

VARIABLES
    currentDate,      \* App: const [currentDate, setCurrentDate]
    searchTerm,       \* App: const [searchTerm, setSearchTerm]
    ownerFilter,      \* App: const [ownerFilter, setOwnerFilter]
    statusFilter,     \* App: const [statusFilter, setStatusFilter]
    taskOverrides,    \* App: id -> {start, end, owner, label}
    customTasks,      \* App: sequence of user-created tasks
    deletedTaskIds,   \* App: set of deleted ids
    subtaskProgress,  \* App: id -> (subtask id -> boolean)
    editingTask,      \* GanttView: id of the task in the edit dialog, or NoTask
    taskToDelete,     \* GanttView: id of the task in the delete dialog, or NoTask
    categoryColors,   \* App: category -> color
    storage,          \* localStorage: key -> item, for the keys that were written
    appStatus,        \* "loading" before App renders, then "running" or "crashed"
    lastOp            \* history: the handler that made the last step

appVars == <<currentDate, searchTerm, ownerFilter, statusFilter, taskOverrides,
             customTasks, deletedTaskIds, subtaskProgress, editingTask, taskToDelete>>

persistVars == <<categoryColors, storage, appStatus>>

vars == <<appVars, lastOp, persistVars>>

-----------------------------------------------------------------------------
(* Bounds and input domains *)

\* at most this many tasks are created in a session
MaxCustom == 1

\* custom tasks created in the specification of task creation
MaxCreated == 2

\* useState<Task | null>(null)
NoTask == "null"

\* category: undefined
NoCategory == "undefined"

\* variant: the id is made from the label, which a catalog id can equal
CustomIds_fromLabel == {"custom_1", "go_live"}

\* ids that `custom_${Date.now()}_${Math.random()...}` may produce
CustomIds == {"custom_1", "custom_2"}

Owners == {"Leadership", "Marketing", "Design", "Product"}

StatusFilters == {"all", "completed", "in-progress", "not-started", "overdue"}

-----------------------------------------------------------------------------
(* Maps with a varying key set (JavaScript objects used as dictionaries) *)

EmptyMap == [k \in {} |-> TRUE]

Has(m, k) == k \in DOMAIN m

\* { ...m, [k]: v }
Put(m, k, v) == [x \in (DOMAIN m) \cup {k} |-> IF x = k THEN v ELSE m[x]]

\* delete m[k]
Remove(m, k) == [x \in (DOMAIN m) \ {k} |-> m[x]]

-----------------------------------------------------------------------------
(* Date helpers *)

HoursPerDay == 24

\* day number of each date of the model, counted from KICKOFF
DayNumber(s) ==
    CASE s = "2025-11-08" -> -2
      [] s = "2025-11-09" -> -1
      [] s = "2025-11-10" -> 0
      [] s = "2025-12-15" -> 35
      [] s = "2025-12-22" -> 42
      [] s = "2025-12-23" -> 43
      [] s = "2026-01-01" -> 52
      [] s = "2026-01-05" -> 56
      [] s = "2026-01-10" -> 61
      [] s = "2026-01-11" -> 62
      [] s = "2026-02-07" -> 89
      [] s = "2026-03-30" -> 140
      [] s = "2026-03-31" -> 141

\* the time value of new Date("") (Invalid Date) and every number computed
\* from it: an integer outside the range of the model's time values
NaN == -1000000

\* const toDate = (s) => new Date(s); compared and subtracted by time value
toDate(s) == IF s = "" THEN NaN ELSE DayNumber(s) * HoursPerDay

\* a < b, a <= b, a > b, a >= b on numbers: false when either side is NaN
Less(a, b) == a # NaN /\ b # NaN /\ a < b

LessEq(a, b) == a # NaN /\ b # NaN /\ a <= b

Greater(a, b) == a # NaN /\ b # NaN /\ a > b

GreaterEq(a, b) == a # NaN /\ b # NaN /\ a >= b

\* Math.round(x / d) for d > 0: floor(x / d + 1/2)
RoundDiv(x, d) == (2 * x + d) \div (2 * d)

\* Math.round((toDate(b) - toDate(a)) / (1000 * 60 * 60 * 24))
daysBetween(a, b) ==
    IF toDate(a) = NaN \/ toDate(b) = NaN THEN NaN
    ELSE RoundDiv(toDate(b) - toDate(a), HoursPerDay)

\* Math.max(a, b): NaN when either argument is NaN
Max(a, b) ==
    IF a = NaN \/ b = NaN THEN NaN
    ELSE IF a >= b THEN a ELSE b

KICKOFF == "2025-11-10"

-----------------------------------------------------------------------------
(* Static tables *)

\* weights are kept in thousandths (0.25 is 250)
subtaskDefinitions ==
    [ foundations |->
        << [id |-> "mission",      weight |-> 250],
           [id |-> "vision",       weight |-> 250],
           [id |-> "values",       weight |-> 200],
           [id |-> "positioning",  weight |-> 200],
           [id |-> "messages",     weight |-> 100] >>,
      product_id |->
        << [id |-> "naming",       weight |-> 500],
           [id |-> "architecture", weight |-> 500] >> ]

allProjectTasks ==
    << [id |-> "foundations", label |-> "Brand Foundations",
        start |-> "2025-11-10", end |-> "2025-12-22",
        owner |-> "Leadership", category |-> NoCategory],
       [id |-> "product_id", label |-> "Product Identity",
        start |-> "2025-12-15", end |-> "2026-02-07",
        owner |-> "Product", category |-> NoCategory],
       [id |-> "go_live", label |-> "Go Live (Soft Launch)",
        start |-> "2026-03-30", end |-> "2026-03-30",
        owner |-> "Leadership", category |-> "website"] >>

\* the value subtaskProgress starts with when nothing was saved
SampleProgress ==
    [ foundations |->
        [mission |-> TRUE, vision |-> FALSE, values |-> FALSE,
         positioning |-> FALSE, messages |-> FALSE] ]

-----------------------------------------------------------------------------
(* Strings: the characters of every string the model uses *)

Chars(s) ==
    CASE s = "" -> <<>>
      [] s = "  " -> <<" ", " ">>
      [] s = "Brand Foundations" -> <<"B", "r", "a", "n", "d", " ", "F", "o", "u", "n", "d", "a", "t", "i", "o", "n", "s">>
      [] s = "Product Identity" -> <<"P", "r", "o", "d", "u", "c", "t", " ", "I", "d", "e", "n", "t", "i", "t", "y">>
      [] s = "Go Live (Soft Launch)" -> <<"G", "o", " ", "L", "i", "v", "e", " ", "(", "S", "o", "f", "t", " ", "L", "a", "u", "n", "c", "h", ")">>
      [] s = "Leadership" -> <<"L", "e", "a", "d", "e", "r", "s", "h", "i", "p">>
      [] s = "Marketing" -> <<"M", "a", "r", "k", "e", "t", "i", "n", "g">>
      [] s = "Design" -> <<"D", "e", "s", "i", "g", "n">>
      [] s = "Product" -> <<"P", "r", "o", "d", "u", "c", "t">>
      [] s = "Brand Core" -> <<"B", "r", "a", "n", "d", " ", "C", "o", "r", "e">>
      [] s = "Launch Party" -> <<"L", "a", "u", "n", "c", "h", " ", "P", "a", "r", "t", "y">>
      [] s = "lead" -> <<"l", "e", "a", "d">>
      [] s = "LIVE" -> <<"L", "I", "V", "E">>
      [] s = "zzz" -> <<"z", "z", "z">>

UpperCase == <<"A", "B", "C", "D", "E", "F", "G", "H", "I", "J", "K", "L", "M",
               "N", "O", "P", "Q", "R", "S", "T", "U", "V", "W", "X", "Y", "Z">>
LowerCase == <<"a", "b", "c", "d", "e", "f", "g", "h", "i", "j", "k", "l", "m",
               "n", "o", "p", "q", "r", "s", "t", "u", "v", "w", "x", "y", "z">>

LowerChar(c) ==
    IF \E i \in 1..Len(UpperCase) : UpperCase[i] = c
    THEN LowerCase[CHOOSE i \in 1..Len(UpperCase) : UpperCase[i] = c]
    ELSE c

\* String.prototype.toLowerCase, on character sequences
RECURSIVE toLowerCase(_)
toLowerCase(cs) ==
    IF cs = <<>> THEN <<>>
    ELSE <<LowerChar(Head(cs))>> \o toLowerCase(Tail(cs))

\* String.prototype.includes, on character sequences
includes(hay, needle) ==
    \E h \in {hay}, n \in {needle} :
        \E i \in 0..(Len(h) - Len(n)) : SubSeq(h, i + 1, i + Len(n)) = n

\* variant: the label is tested without trimming it
TrimIsEmpty_noTrim(s) == s = ""

\* String.prototype.trim leaves nothing exactly when every character is a blank
TrimIsEmpty(s) == \A i \in 1..Len(Chars(s)) : Chars(s)[i] = " "

\* text.toLowerCase().includes(term.toLowerCase())
IncludesIgnoringCase(text, term) ==
    includes(toLowerCase(Chars(text)), toLowerCase(Chars(term)))

\* the strings a label or an owner can be, and the strings typed in the search box
Texts == {"Brand Foundations", "Product Identity", "Go Live (Soft Launch)",
          "Leadership", "Marketing", "Design", "Product", "Brand Core",
          "Launch Party", "  ", ""}
Terms == {"", "lead", "LIVE", "zzz"}

\* IncludesIgnoringCase tabulated once over the strings of the model
IncludesTable ==
    [p \in Texts \X Terms |-> IncludesIgnoringCase(p[1], p[2])] @@ EmptyMap

-----------------------------------------------------------------------------
(* App: derived data (useMemo), as functions of the state they depend on *)

\* a || b on strings: the empty string is falsy
OrElse(a, b) == IF a # "" THEN a ELSE b

\* override.f || base, where a missing field (undefined) is falsy too
FieldOr(override, f, base) ==
    IF Has(override, f) THEN OrElse(override[f], base) ELSE base

\* variant: the owner of the base task is kept
MergeOverride_keepsOwner(task, override) ==
    [task EXCEPT !.start = FieldOr(override, "start", task.start),
                 !.end   = FieldOr(override, "end", task.end),
                 !.label = FieldOr(override, "label", task.label)]

\* the map callback of allTasks
MergeOverride(task, override) ==
    [task EXCEPT !.start = FieldOr(override, "start", task.start),
                 !.end   = FieldOr(override, "end", task.end),
                 !.owner = FieldOr(override, "owner", task.owner),
                 !.label = FieldOr(override, "label", task.label)]

ApplyOverride(task, overrides) ==
    IF Has(overrides, task.id)
    THEN MergeOverride(task, overrides[task.id])
    ELSE task

\* the map callback of buildRows
BuildRow(t) ==
    [id |-> t.id, label |-> t.label, start |-> t.start, end |-> t.end,
     owner |-> t.owner, category |-> t.category,
     offset |-> Max(0, daysBetween(KICKOFF, t.start)),
     length |-> Max(1, daysBetween(t.start, t.end))]

RECURSIVE buildRows(_)
buildRows(tasks) ==
    IF tasks = <<>> THEN <<>>
    ELSE <<BuildRow(Head(tasks))>> \o buildRows(Tail(tasks))

\* combinedTasks.filter(not deleted).map(apply override)
RECURSIVE TasksWithOverrides(_, _, _)
TasksWithOverrides(combined, overrides, deleted) ==
    IF combined = <<>> THEN <<>>
    ELSE (IF Head(combined).id \in deleted
          THEN <<>>
          ELSE <<ApplyOverride(Head(combined), overrides)>>)
         \o TasksWithOverrides(Tail(combined), overrides, deleted)

\* variant: deleted ids are filtered out of the catalog only
AllTasksOf_customUnfiltered(overrides, customs, deleted) ==
    buildRows(TasksWithOverrides(allProjectTasks, overrides, deleted)
              \o TasksWithOverrides(customs, overrides, {}))

\* the allTasks memo
AllTasksOf(overrides, customs, deleted) ==
    buildRows(TasksWithOverrides(allProjectTasks \o customs, overrides, deleted))

Ids(tasks) == {tasks[i].id : i \in 1..Len(tasks)}

\* subtaskProgress[taskId] || {}
CompletedOf(sp, taskId) == IF Has(sp, taskId) THEN sp[taskId] ELSE EmptyMap

\* variant: a subtask counts as soon as its key is present
IsChecked_keyPresent(completed, subtaskId) == Has(completed, subtaskId)

\* completed[subtask.id] is truthy
IsChecked(completed, subtaskId) == Has(completed, subtaskId) /\ completed[subtaskId]

\* totalProgress after the forEach, in tenths of a percent
RECURSIVE TotalProgress(_, _)
TotalProgress(subtasks, completed) ==
    IF subtasks = <<>> THEN 0
    ELSE (IF IsChecked(completed, Head(subtasks).id) THEN Head(subtasks).weight ELSE 0)
         + TotalProgress(Tail(subtasks), completed)

\* variant: the weight sum is stored without scaling it to a percentage
WeightedPercent_unscaled(sp, taskId) ==
    TotalProgress(subtaskDefinitions[taskId], CompletedOf(sp, taskId))

\* result[taskId] = Math.round(totalProgress)
WeightedPercent(sp, taskId) ==
    RoundDiv(TotalProgress(subtaskDefinitions[taskId], CompletedOf(sp, taskId)), 10)

\* variant: without the second loop, which gives the remaining tasks a 0
ProgressMap_definedOnly(sp, tasks) ==
    [id \in DOMAIN subtaskDefinitions |-> WeightedPercent(sp, id)]

\* the progress memo
ProgressMap(sp, tasks) ==
    [id \in (DOMAIN subtaskDefinitions) \cup Ids(tasks) |->
        IF id \in DOMAIN subtaskDefinitions /\ WeightedPercent(sp, id) # 0
        THEN WeightedPercent(sp, id)
        ELSE 0]

\* prog[id] || 0
PercentOf(prog, id) == IF Has(prog, id) THEN prog[id] ELSE 0

\* variant: the search looks at the label only
matchesSearch_labelOnly(task, term) ==
    \/ term = ""
    \/ IncludesTable[<<task.label, term>>]

matchesSearch(task, term) ==
    \/ term = ""
    \/ IncludesTable[<<task.label, term>>]
    \/ IncludesTable[<<task.owner, term>>]

matchesOwner(task, owner) == owner = "all" \/ task.owner = owner

\* variant: a finished task is never "not-started"
matchesStatus_unfinishedOnly(task, taskProgress, status, date) ==
    LET today == toDate(date)
        start == toDate(task.start)
        end   == toDate(task.end)
    IN  CASE status = "all"         -> TRUE
          [] status = "completed"   -> taskProgress = 100
          [] status = "in-progress" -> GreaterEq(today, start) /\ LessEq(today, end) /\ taskProgress < 100
          [] status = "not-started" -> Less(today, start) /\ taskProgress < 100
          [] status = "overdue"     -> Greater(today, end) /\ taskProgress < 100
          [] OTHER                  -> TRUE

matchesStatus(task, taskProgress, status, date) ==
    LET today == toDate(date)
        start == toDate(task.start)
        end   == toDate(task.end)
    IN  CASE status = "all"         -> TRUE
          [] status = "completed"   -> taskProgress = 100
          [] status = "in-progress" -> GreaterEq(today, start) /\ LessEq(today, end) /\ taskProgress < 100
          [] status = "not-started" -> Less(today, start)
          [] status = "overdue"     -> Greater(today, end) /\ taskProgress < 100
          [] OTHER                  -> TRUE

\* variant: the kept tasks come out last first
RECURSIVE FilterTasks_reversed(_, _, _, _, _, _)
FilterTasks_reversed(tasks, prog, term, owner, status, date) ==
    IF tasks = <<>> THEN <<>>
    ELSE FilterTasks_reversed(Tail(tasks), prog, term, owner, status, date)
         \o (IF /\ matchesSearch(Head(tasks), term)
                /\ matchesOwner(Head(tasks), owner)
                /\ matchesStatus(Head(tasks), PercentOf(prog, Head(tasks).id), status, date)
             THEN <<Head(tasks)>>
             ELSE <<>>)

\* the filteredTasks memo
RECURSIVE FilterTasks(_, _, _, _, _, _)
FilterTasks(tasks, prog, term, owner, status, date) ==
    IF tasks = <<>> THEN <<>>
    ELSE (IF /\ matchesSearch(Head(tasks), term)
             /\ matchesOwner(Head(tasks), owner)
             /\ matchesStatus(Head(tasks), PercentOf(prog, Head(tasks).id), status, date)
          THEN <<Head(tasks)>>
          ELSE <<>>)
         \o FilterTasks(Tail(tasks), prog, term, owner, status, date)

\* filteredTasks as a function of the state it is computed from
FilteredOf(overrides, customs, deleted, sp, term, owner, status, date) ==
    LET tasks == AllTasksOf(overrides, customs, deleted)
    IN  FilterTasks(tasks, ProgressMap(sp, tasks), term, owner, status, date)

allTasks == AllTasksOf(taskOverrides, customTasks, deletedTaskIds)

progress == ProgressMap(subtaskProgress, allTasks)

filteredTasks ==
    FilteredOf(taskOverrides, customTasks, deletedTaskIds, subtaskProgress,
               searchTerm, ownerFilter, statusFilter, currentDate)

uniqueOwners == {allTasks[i].owner : i \in 1..Len(allTasks)}

\* progress[task.id] || 0
ProgressOf(id) == PercentOf(progress, id)

-----------------------------------------------------------------------------
(* Status as each view derives it from a task, its percent and the date *)

\* DashboardView stats: the branch of the if-chain a task is counted in
DashboardView_status(task, taskProgress, date) ==
    LET today == toDate(date)
        start == toDate(task.start)
        end   == toDate(task.end)
    IN  IF taskProgress = 100 THEN "completed"
        ELSE IF Less(today, start) THEN "not-started"
        ELSE IF GreaterEq(today, start) /\ LessEq(today, end) THEN "in-progress"
        ELSE IF Greater(today, end) /\ taskProgress < 100 THEN "overdue"
        ELSE "uncounted"

CountWith(tasks, prog, date, status) ==
    Cardinality({i \in 1..Len(tasks) :
        DashboardView_status(tasks[i], PercentOf(prog, tasks[i].id), date) = status})

\* DashboardView receives tasks={allTasks}
StatsOf(tasks, prog, date) ==
    [notStarted |-> CountWith(tasks, prog, date, "not-started"),
     inProgress |-> CountWith(tasks, prog, date, "in-progress"),
     completed  |-> CountWith(tasks, prog, date, "completed"),
     overdue    |-> CountWith(tasks, prog, date, "overdue"),
     total      |-> Len(tasks)]

\* variant: the dates are looked at before the percent
GanttView_status_datesFirst(task, taskProgress, date) ==
    LET today == toDate(date)
        start == toDate(task.start)
        end   == toDate(task.end)
    IN  IF Less(today, start) THEN "not-started"
        ELSE IF taskProgress = 100 THEN "completed"
        ELSE IF Greater(today, end) THEN "overdue"
        ELSE "in-progress"

\* GanttView enrichedTasks
GanttView_status(task, taskProgress, date) ==
    LET today == toDate(date)
        start == toDate(task.start)
        end   == toDate(task.end)
    IN  IF taskProgress = 100 THEN "completed"
        ELSE IF GreaterEq(today, start) /\ LessEq(today, end) THEN "in-progress"
        ELSE IF Greater(today, end) THEN "overdue"
        ELSE "not-started"

\* variant: the end day itself already counts as overdue
CountdownTracker_status_endExclusive(task, taskProgress, date) ==
    LET daysUntilStart == daysBetween(date, task.start)
        daysUntilEnd   == daysBetween(date, task.end)
    IN  IF taskProgress = 100 THEN "completed"
        ELSE IF Greater(daysUntilStart, 0) THEN "upcoming"
        ELSE IF Greater(daysUntilEnd, 0) THEN "in-progress"
        ELSE "overdue"

\* CountdownTracker tasksWithCountdown
CountdownTracker_status(task, taskProgress, date) ==
    LET daysUntilStart == daysBetween(date, task.start)
        daysUntilEnd   == daysBetween(date, task.end)
    IN  IF taskProgress = 100 THEN "completed"
        ELSE IF Greater(daysUntilStart, 0) THEN "upcoming"
        ELSE IF GreaterEq(daysUntilEnd, 0) THEN "in-progress"
        ELSE "overdue"

\* variant: overdue is tested before not started
OwnerView_getTaskStatus_overdueFirst(task, taskProgress, date) ==
    LET today == toDate(date)
        start == toDate(task.start)
        end   == toDate(task.end)
    IN  IF taskProgress = 100 THEN "Completed"
        ELSE IF Greater(today, end) THEN "Overdue"
        ELSE IF Less(today, start) THEN "Not Started"
        ELSE "In Progress"

\* OwnerView getTaskStatus (the badge label)
OwnerView_getTaskStatus(task, taskProgress, date) ==
    LET today == toDate(date)
        start == toDate(task.start)
        end   == toDate(task.end)
    IN  IF taskProgress = 100 THEN "Completed"
        ELSE IF Less(today, start) THEN "Not Started"
        ELSE IF Greater(today, end) THEN "Overdue"
        ELSE "In Progress"

\* ProgressManager getTaskStatus (the badge label)
ProgressManager_getTaskStatus(task, taskProgress, date) ==
    LET today == toDate(date)
        start == toDate(task.start)
        end   == toDate(task.end)
    IN  IF taskProgress = 100 THEN "Completed"
        ELSE IF Less(today, start) THEN "Not Started"
        ELSE IF Greater(today, end) THEN "Overdue"
        ELSE "In Progress"

\* ProgressManager filteredTasks (its own search box left empty): the ids shown
ProgressManager_shown(tasks) == Ids(tasks) \cap DOMAIN subtaskDefinitions

-----------------------------------------------------------------------------
(* The task list each view is rendered with (the tasks prop in App's JSX) *)

DashboardView_tasks == allTasks

\* rendered only while filteredTasks is not empty
GanttView_tasks == filteredTasks

CountdownTracker_tasks == allTasks

\* rendered only while filteredTasks is not empty
OwnerView_tasks == filteredTasks

ProgressManager_tasks == allTasks

\* variant: the export dialog is handed the filtered list
ExportDialog_tasks_filtered == filteredTasks

ExportDialog_tasks == allTasks

\* the rows of exportToCSV, without the header line
exportToCSV_rows ==
    [i \in 1..Len(ExportDialog_tasks) |->
        LET task == ExportDialog_tasks[i]
        IN  <<task.label, task.start, task.end,
              IF task.length # 0 /\ task.length # NaN THEN task.length ELSE 0,
              task.owner, ProgressOf(task.id)>>]

exportToCSV_headers ==
    <<"Task", "Start Date", "End Date", "Duration (days)", "Owner", "Progress (%)">>

\* the records of csvContent, each a tuple of cells
exportToCSV_records == <<exportToCSV_headers>> \o exportToCSV_rows

\* tasks.reduce((sum, task) => sum + (progress[task.id] || 0), 0)
RECURSIVE SumProgress(_, _)
SumProgress(tasks, prog) ==
    IF tasks = <<>> THEN 0
    ELSE PercentOf(prog, Head(tasks).id) + SumProgress(Tail(tasks), prog)

\* Math.round(total / count) for count >= 0 and total = 0 when count = 0:
\* 0 / 0 is NaN and Math.round(NaN) is NaN
RoundedAverage(total, count) ==
    IF count = 0 THEN NaN ELSE RoundDiv(total, count)

\* the overallProgress memo of the dashboard
DashboardView_overallProgress ==
    RoundedAverage(SumProgress(allTasks, progress), Len(allTasks))

\* avgProgress in exportToPDF
exportToPDF_avgProgress ==
    RoundedAverage(SumProgress(ExportDialog_tasks, progress), Len(ExportDialog_tasks))

\* DashboardView stats
stats == StatsOf(DashboardView_tasks, progress, currentDate)

-----------------------------------------------------------------------------
(* Initial state: first load, nothing saved in localStorage *)

\* new Date().toISOString().slice(0, 10): the day the page is loaded
LoadDates == {"2025-12-22", "2026-03-31"}

defaultCategoryColors ==
    [category \in {"website", "tradeshow", "templates", "visual-assets"} |->
        CASE category = "website"       -> "#6366f1"
          [] category = "tradeshow"     -> "#eab308"
          [] category = "templates"     -> "#10b981"
          [] category = "visual-assets" -> "#8b5cf6"]

\* JSON text of an object: its members as <<key, text of the value>>
ObjectText(members) == [syntax |-> "object", members |-> members]

BooleanText(b) == IF b THEN "true" ELSE "false"

\* variant: members whose value is false are left out of the text
JSON_stringify_progress_truthyOnly(sp) ==
    ObjectText({<<id, ObjectText({<<k, BooleanText(sp[id][k])>> :
                                     k \in {x \in DOMAIN sp[id] : sp[id][x]}})>> :
                   id \in DOMAIN sp})

\* JSON.stringify(subtaskProgress)
JSON_stringify_progress(sp) ==
    ObjectText({<<id, ObjectText({<<k, BooleanText(sp[id][k])>> : k \in DOMAIN sp[id]})>> :
                   id \in DOMAIN sp})

\* JSON.stringify(categoryColors)
JSON_stringify_colors(colors) ==
    ObjectText({<<k, <<"string", colors[k]>> >> : k \in DOMAIN colors})

\* JSON.parse throws a SyntaxError on a text that is not complete JSON
Throws(text) == text.syntax # "object"

MemberKeys(text) == {m[1] : m \in text.members}

MemberText(text, key) == (CHOOSE m \in text.members : m[1] = key)[2]

\* JSON.parse of a text that holds a completion map
JSON_parse_progress(text) ==
    [id \in MemberKeys(text) |->
        [k \in MemberKeys(MemberText(text, id)) |->
            MemberText(MemberText(text, id), k) = "true"]]

\* JSON.parse of a text that holds a color map
JSON_parse_colors(text) ==
    [k \in MemberKeys(text) |-> MemberText(text, k)[2]]

\* a text cut off in the middle: some members are readable, the end is missing
Unterminated(text) == [syntax |-> "unterminated", members |-> text.members]

\* the useState initializer of subtaskProgress finishes without an exception
subtaskProgress_loads(store) ==
    Has(store, "subtaskProgress") => ~Throws(store["subtaskProgress"])

\* saved ? JSON.parse(saved) : the sample data
subtaskProgress_initial(store) ==
    IF Has(store, "subtaskProgress")
    THEN JSON_parse_progress(store["subtaskProgress"])
    ELSE SampleProgress

categoryColors_loads(store) ==
    Has(store, "categoryColors") => ~Throws(store["categoryColors"])

\* saved ? JSON.parse(saved) : defaultCategoryColors
categoryColors_initial(store) ==
    IF Has(store, "categoryColors")
    THEN JSON_parse_colors(store["categoryColors"])
    ELSE defaultCategoryColors

\* localStorage.setItem(key, text)
Saved(store, key, text) == Put(store, key, text)

Init ==
    /\ currentDate \in LoadDates
    /\ searchTerm = ""
    /\ ownerFilter = "all"
    /\ statusFilter = "all"
    /\ taskOverrides = EmptyMap
    /\ customTasks = <<>>
    /\ deletedTaskIds = {}
    /\ subtaskProgress = SampleProgress
    /\ editingTask = NoTask
    /\ taskToDelete = NoTask
    /\ categoryColors = defaultCategoryColors
    /\ storage = Saved(Saved(EmptyMap, "categoryColors",
                             JSON_stringify_colors(defaultCategoryColors)),
                       "subtaskProgress", JSON_stringify_progress(SampleProgress))
    /\ appStatus = "running"
    /\ lastOp = "init"

-----------------------------------------------------------------------------
(* Rendering *)

\* App renders GanttView only when filteredTasks.length !== 0
\* the effect of [subtaskProgress]: the changed map is written to localStorage
useEffect_subtaskProgress(store) ==
    IF subtaskProgress' # subtaskProgress
    THEN Saved(store, "subtaskProgress", JSON_stringify_progress(subtaskProgress'))
    ELSE store

\* the effect of [categoryColors]
useEffect_categoryColors(store) ==
    IF categoryColors' # categoryColors
    THEN Saved(store, "categoryColors", JSON_stringify_colors(categoryColors'))
    ELSE store

\* a handler of the mounted App that leaves the colors alone, and the
\* effects that run after it
Committed ==
    /\ appStatus = "running"
    /\ UNCHANGED <<categoryColors, appStatus>>
    /\ storage' = useEffect_subtaskProgress(storage)

\* variant: GanttView is rendered whatever the filtered list holds
GanttRendered_always == TRUE

GanttRendered == filteredTasks # <<>>

\* filteredTasks is empty after this step
UnmountsGantt ==
    \E ov \in {taskOverrides'}, ct \in {customTasks'}, dl \in {deletedTaskIds'},
       sp \in {subtaskProgress'}, term \in {searchTerm'}, owner \in {ownerFilter'},
       status \in {statusFilter'}, date \in {currentDate'} :
        FilteredOf(ov, ct, dl, sp, term, owner, status, date) = <<>>

\* GanttView state is lost when the view is unmounted
Remount(v) == IF v = NoTask THEN NoTask ELSE IF UnmountsGantt THEN NoTask ELSE v

GanttKept ==
    /\ editingTask' = Remount(editingTask)
    /\ taskToDelete' = Remount(taskToDelete)

-----------------------------------------------------------------------------
(* Header and FilterPanel *)

setCurrentDate(d) ==
    /\ currentDate' = d
    /\ UNCHANGED <<searchTerm, ownerFilter, statusFilter, taskOverrides,
                   customTasks, deletedTaskIds, subtaskProgress>>
    /\ GanttKept
    /\ lastOp' = "setCurrentDate"
    /\ Committed

setSearchTerm(term) ==
    /\ searchTerm' = term
    /\ UNCHANGED <<currentDate, ownerFilter, statusFilter, taskOverrides,
                   customTasks, deletedTaskIds, subtaskProgress>>
    /\ GanttKept
    /\ lastOp' = "setSearchTerm"
    /\ Committed

\* the owner dropdown offers "all" and uniqueOwners
setOwnerFilter(owner) ==
    /\ owner \in {"all"} \cup uniqueOwners
    /\ ownerFilter' = owner
    /\ UNCHANGED <<currentDate, searchTerm, statusFilter, taskOverrides,
                   customTasks, deletedTaskIds, subtaskProgress>>
    /\ GanttKept
    /\ lastOp' = "setOwnerFilter"
    /\ Committed

setStatusFilter(status) ==
    /\ statusFilter' = status
    /\ UNCHANGED <<currentDate, searchTerm, ownerFilter, taskOverrides,
                   customTasks, deletedTaskIds, subtaskProgress>>
    /\ GanttKept
    /\ lastOp' = "setStatusFilter"
    /\ Committed

resetFilters ==
    /\ searchTerm' = ""
    /\ ownerFilter' = "all"
    /\ statusFilter' = "all"
    /\ UNCHANGED <<currentDate, taskOverrides, customTasks, deletedTaskIds,
                   subtaskProgress>>
    /\ GanttKept
    /\ lastOp' = "resetFilters"
    /\ Committed

-----------------------------------------------------------------------------
(* App: the store mutations handed to GanttView *)

\* { ...prev[taskId], ...updates }
SpreadUpdates(prev, taskId, updates) ==
    LET old == IF Has(prev, taskId) THEN prev[taskId] ELSE EmptyMap
    IN  [f \in (DOMAIN old) \cup (DOMAIN updates) |->
            IF f \in DOMAIN updates THEN updates[f] ELSE old[f]]

\* onUpdateTask={(taskId, updates) => setTaskOverrides(...)}
onUpdateTask(taskId, updates) ==
    taskOverrides' = Put(taskOverrides, taskId,
                         SpreadUpdates(taskOverrides, taskId, updates))

\* variant: the new task is put in front of the custom tasks
handleCreateTask_prepends(newId, taskData) ==
    customTasks' =
        <<[id |-> newId, label |-> taskData.label, start |-> taskData.start,
           end |-> taskData.end, owner |-> taskData.owner,
           category |-> taskData.category]>> \o customTasks

\* App handleCreateTask; newId is what the id template produces
handleCreateTask(newId, taskData) ==
    customTasks' = Append(customTasks,
        [id |-> newId, label |-> taskData.label, start |-> taskData.start,
         end |-> taskData.end, owner |-> taskData.owner,
         category |-> taskData.category])

\* variant: the override of the deleted task is left behind
\* variant: the completion entry of the task is kept
handleDeleteTask_keepsProgress(taskId) ==
    /\ deletedTaskIds' = deletedTaskIds \cup {taskId}
    /\ taskOverrides' = Remove(taskOverrides, taskId)
    /\ subtaskProgress' = subtaskProgress

handleDeleteTask_keepsOverride(taskId) ==
    /\ deletedTaskIds' = deletedTaskIds \cup {taskId}
    /\ taskOverrides' = taskOverrides
    /\ subtaskProgress' = Remove(subtaskProgress, taskId)

handleDeleteTask(taskId) ==
    /\ deletedTaskIds' = deletedTaskIds \cup {taskId}
    /\ taskOverrides' = Remove(taskOverrides, taskId)
    /\ subtaskProgress' = Remove(subtaskProgress, taskId)

\* variant: only one of the edited tasks is put back
onResetTimelines_oneTask ==
    IF taskOverrides = EmptyMap THEN taskOverrides' = EmptyMap
    ELSE \E id \in DOMAIN taskOverrides : taskOverrides' = Remove(taskOverrides, id)

\* variant: only the edited dates are dropped
onResetTimelines_datesOnly ==
    taskOverrides' =
        [id \in DOMAIN taskOverrides |->
            [f \in (DOMAIN taskOverrides[id]) \ {"start", "end"} |->
                taskOverrides[id][f]]]

\* onResetTimelines={() => setTaskOverrides({})}
onResetTimelines == taskOverrides' = EmptyMap

hasOverrides == DOMAIN taskOverrides # {}

-----------------------------------------------------------------------------
(* GanttView handlers *)

\* the edit table has one row, with an Edit and a Delete button, per task of
\* the tasks prop, which is filteredTasks: the handlers below that take a
\* taskId are called with one of these
ListedIds == Ids(filteredTasks)

openEditDialog(taskId) ==
    /\ UNCHANGED <<currentDate, searchTerm, ownerFilter, statusFilter,
                   taskOverrides, customTasks, deletedTaskIds, subtaskProgress>>
    /\ editingTask' = taskId
    /\ taskToDelete' = taskToDelete
    /\ lastOp' = "openEditDialog"
    /\ Committed

\* the dialog's Cancel button and onOpenChange
cancelEdit ==
    /\ GanttRendered
    /\ editingTask # NoTask
    /\ editingTask' = NoTask
    /\ UNCHANGED <<currentDate, searchTerm, ownerFilter, statusFilter,
                   taskOverrides, customTasks, deletedTaskIds, subtaskProgress,
                   taskToDelete>>
    /\ lastOp' = "cancelEdit"
    /\ Committed

\* saveEdit with the form holding start, end, owner and label
saveEdit(form) ==
    /\ GanttRendered
    /\ editingTask # NoTask
    /\ onUpdateTask(editingTask, form)
    /\ UNCHANGED <<currentDate, searchTerm, ownerFilter, statusFilter,
                   customTasks, deletedTaskIds, subtaskProgress>>
    /\ editingTask' = NoTask
    /\ taskToDelete' = Remount(taskToDelete)
    /\ lastOp' = "saveEdit"
    /\ Committed

setTaskToDelete(taskId) ==
    /\ UNCHANGED <<currentDate, searchTerm, ownerFilter, statusFilter,
                   taskOverrides, customTasks, deletedTaskIds, subtaskProgress>>
    /\ taskToDelete' = taskId
    /\ editingTask' = editingTask
    /\ lastOp' = "setTaskToDelete"
    /\ Committed

\* the alert dialog's Cancel button and onOpenChange
cancelDelete ==
    /\ GanttRendered
    /\ taskToDelete # NoTask
    /\ taskToDelete' = NoTask
    /\ UNCHANGED <<currentDate, searchTerm, ownerFilter, statusFilter,
                   taskOverrides, customTasks, deletedTaskIds, subtaskProgress,
                   editingTask>>
    /\ lastOp' = "cancelDelete"
    /\ Committed

confirmDelete ==
    /\ GanttRendered
    /\ taskToDelete # NoTask
    /\ handleDeleteTask(taskToDelete)
    /\ UNCHANGED <<currentDate, searchTerm, ownerFilter, statusFilter, customTasks>>
    /\ taskToDelete' = NoTask
    /\ editingTask' = Remount(editingTask)
    /\ lastOp' = "confirmDelete"
    /\ Committed

\* GanttView handleCreateTask with the create form filled in
GanttView_handleCreateTask(newId, taskData) ==
    /\ GanttRendered
    /\ IF TrimIsEmpty(taskData.label)
       THEN /\ UNCHANGED appVars
            /\ lastOp' = "createRejected"
            /\ Committed
       ELSE /\ handleCreateTask(newId, taskData)
            /\ UNCHANGED <<currentDate, searchTerm, ownerFilter, statusFilter,
                           taskOverrides, deletedTaskIds, subtaskProgress>>
            /\ GanttKept
            /\ lastOp' = "createTask"
            /\ Committed

\* the Reset All Edits button, shown when hasOverrides
\* variant: the reset also brings deleted tasks back
resetAllEdits_restoresDeleted ==
    /\ GanttRendered
    /\ hasOverrides
    /\ onResetTimelines
    /\ deletedTaskIds' = {}
    /\ UNCHANGED <<currentDate, searchTerm, ownerFilter, statusFilter,
                   customTasks, subtaskProgress>>
    /\ GanttKept
    /\ lastOp' = "resetAllEdits"
    /\ Committed

\* variant: the reset also drops the custom tasks
resetAllEdits_dropsCustom ==
    /\ GanttRendered
    /\ hasOverrides
    /\ onResetTimelines
    /\ customTasks' = <<>>
    /\ UNCHANGED <<currentDate, searchTerm, ownerFilter, statusFilter,
                   deletedTaskIds, subtaskProgress>>
    /\ GanttKept
    /\ lastOp' = "resetAllEdits"
    /\ Committed

resetAllEdits ==
    /\ GanttRendered
    /\ hasOverrides
    /\ onResetTimelines
    /\ UNCHANGED <<currentDate, searchTerm, ownerFilter, statusFilter,
                   customTasks, deletedTaskIds, subtaskProgress>>
    /\ GanttKept
    /\ lastOp' = "resetAllEdits"
    /\ Committed

\* Edit, then Save Changes, with nothing in between
updateTask(taskId, form) ==
    /\ editingTask = NoTask
    /\ onUpdateTask(taskId, form)
    /\ UNCHANGED <<currentDate, searchTerm, ownerFilter, statusFilter,
                   customTasks, deletedTaskIds, subtaskProgress>>
    /\ editingTask' = NoTask
    /\ taskToDelete' = Remount(taskToDelete)
    /\ lastOp' = "updateTask"
    /\ Committed

\* Delete, then the confirming Delete, with nothing in between
deleteTask(taskId) ==
    /\ taskToDelete = NoTask
    /\ handleDeleteTask(taskId)
    /\ UNCHANGED <<currentDate, searchTerm, ownerFilter, statusFilter, customTasks>>
    /\ taskToDelete' = NoTask
    /\ editingTask' = Remount(editingTask)
    /\ lastOp' = "deleteTask"
    /\ Committed

-----------------------------------------------------------------------------
(* ProgressManager handlers *)

\* the checklist shows the tasks of allTasks that have subtask definitions
Shown(taskId) == taskId \in ProgressManager_shown(allTasks)

SubtaskIds(taskId) ==
    {subtaskDefinitions[taskId][i].id : i \in 1..Len(subtaskDefinitions[taskId])}

\* !currentTaskProgress[subtaskId]
Flipped(current, subtaskId) == ~IsChecked(current, subtaskId)

toggleSubtaskResult(sp, taskId, subtaskId) ==
    LET currentTaskProgress == CompletedOf(sp, taskId)
    IN  Put(sp, taskId,
            Put(currentTaskProgress, subtaskId,
                Flipped(currentTaskProgress, subtaskId)))

toggleSubtask(taskId, subtaskId) ==
    /\ Shown(taskId)
    /\ subtaskId \in SubtaskIds(taskId)
    /\ subtaskProgress' = toggleSubtaskResult(subtaskProgress, taskId, subtaskId)
    /\ UNCHANGED <<currentDate, searchTerm, ownerFilter, statusFilter,
                   taskOverrides, customTasks, deletedTaskIds>>
    /\ GanttKept
    /\ lastOp' = "toggleSubtask"
    /\ Committed

\* Object.fromEntries(subtasks.map(st => [st.id, checked]))
\* variant: the last subtask of the list is left as it is
toggleAllResult_exceptLast(sp, taskId, checked) ==
    Put(sp, taskId,
        [st \in SubtaskIds(taskId) |->
            IF st = subtaskDefinitions[taskId][Len(subtaskDefinitions[taskId])].id
            THEN IsChecked(CompletedOf(sp, taskId), st)
            ELSE checked])

toggleAllResult(sp, taskId, checked) ==
    Put(sp, taskId, [st \in SubtaskIds(taskId) |-> checked])

toggleAllSubtasks(taskId, checked) ==
    /\ Shown(taskId)
    /\ subtaskProgress' = toggleAllResult(subtaskProgress, taskId, checked)
    /\ UNCHANGED <<currentDate, searchTerm, ownerFilter, statusFilter,
                   taskOverrides, customTasks, deletedTaskIds>>
    /\ GanttKept
    /\ lastOp' = "toggleAllSubtasks"
    /\ Committed

resetProgress ==
    /\ subtaskProgress' = EmptyMap
    /\ UNCHANGED <<currentDate, searchTerm, ownerFilter, statusFilter,
                   taskOverrides, customTasks, deletedTaskIds>>
    /\ GanttKept
    /\ lastOp' = "resetProgress"
    /\ Committed

-----------------------------------------------------------------------------
(* Inputs *)

\* what the edit dialog is saved with: a cleared form that only changes the
\* owner, and a full form whose end date is before its start date
EditForms ==
    { [start |-> "", end |-> "", owner |-> "Design", label |-> ""],
      [start |-> "2026-01-10", end |-> "2026-01-01", owner |-> "Marketing",
       label |-> "Brand Core"] }

\* what the create dialog is submitted with
NewTaskForms ==
    { [label |-> "Launch Party", start |-> KICKOFF, end |-> KICKOFF,
       owner |-> "Leadership", category |-> NoCategory],
      [label |-> "  ", start |-> KICKOFF, end |-> KICKOFF,
       owner |-> "Leadership", category |-> NoCategory] }

SearchTerms == {"", "lead"}

-----------------------------------------------------------------------------
(* Specification of the task store: create, update, delete and reset of
   the rows listed under the current search term *)

Next ==
    \/ \E term \in SearchTerms : setSearchTerm(term)
    \/ \E id \in CustomIds, data \in NewTaskForms :
           Len(customTasks) < MaxCustom /\ GanttView_handleCreateTask(id, data)
    \/ \E id \in ListedIds, form \in EditForms : updateTask(id, form)
    \/ \E id \in ListedIds : deleteTask(id)
    \/ resetAllEdits

Spec == Init /\ [][Next]_vars

-----------------------------------------------------------------------------
(* Specification of task creation: several custom tasks are created, with
   a blank label, with an end before the start and a start before KICKOFF,
   and with a cleared start date; rows are edited to start after their end,
   deleted, and the edits reset *)

CreateForms ==
    { [label |-> "Launch Party", start |-> "2025-11-09", end |-> "2025-11-08",
       owner |-> "Leadership", category |-> NoCategory],
      [label |-> "Launch Party", start |-> "", end |-> KICKOFF,
       owner |-> "Leadership", category |-> NoCategory],
      [label |-> "  ", start |-> KICKOFF, end |-> KICKOFF,
       owner |-> "Leadership", category |-> NoCategory] }

LateStartForm ==
    [start |-> "2026-03-31", end |-> "", owner |-> "Marketing", label |-> ""]

NextCreate ==
    \/ \E id \in CustomIds, data \in CreateForms :
           Len(customTasks) < MaxCreated /\ GanttView_handleCreateTask(id, data)
    \/ \E id \in ListedIds : updateTask(id, LateStartForm)
    \/ \E id \in ListedIds : deleteTask(id)
    \/ resetAllEdits

SpecCreate == Init /\ [][NextCreate]_vars

-----------------------------------------------------------------------------
(* Specification of the Gantt dialogs: a row's Edit and Delete buttons open
   a dialog that is saved, confirmed or dismissed in a later step *)

NextDialogs ==
    \/ \E term \in SearchTerms : setSearchTerm(term)
    \/ \E id \in ListedIds : openEditDialog(id)
    \/ cancelEdit
    \/ \E form \in EditForms : saveEdit(form)
    \/ \E id \in ListedIds : setTaskToDelete(id)
    \/ cancelDelete
    \/ confirmDelete

SpecDialogs == Init /\ [][NextDialogs]_vars

-----------------------------------------------------------------------------
(* Specification of a whole session: every operation of the application    *)

SessionForm ==
    [start |-> "2026-01-01", end |-> "2026-01-10", owner |-> "Marketing",
     label |-> "Brand Core"]

SessionTask ==
    [label |-> "Launch Party", start |-> KICKOFF, end |-> KICKOFF,
     owner |-> "Leadership", category |-> NoCategory]

NextSession ==
    \/ setCurrentDate("2026-01-05")
    \/ setOwnerFilter("Leadership")
    \/ resetFilters
    \/ \E id \in CustomIds :
           Len(customTasks) < MaxCustom /\ GanttView_handleCreateTask(id, SessionTask)
    \/ \E id \in ListedIds : updateTask(id, SessionForm)
    \/ \E id \in ListedIds : deleteTask(id)
    \/ resetAllEdits
    \/ toggleSubtask("product_id", "naming")
    \/ resetProgress

SpecSession == Init /\ [][NextSession]_vars

-----------------------------------------------------------------------------
(* Specification of the checklist: toggles, check-all, uncheck-all, reset
   and deletion of tasks *)

NextProgress ==
    \/ \E id \in DOMAIN subtaskDefinitions :
           \E subtaskId \in SubtaskIds(id) : toggleSubtask(id, subtaskId)
    \/ \E id \in DOMAIN subtaskDefinitions, checked \in BOOLEAN :
           toggleAllSubtasks(id, checked)
    \/ resetProgress
    \/ \E id \in ListedIds : deleteTask(id)

SpecProgress == Init /\ [][NextProgress]_vars

-----------------------------------------------------------------------------
(* Specification of the status derivation: the reference date moves around
   the dates of the tasks, dates are edited (also to an end before the
   start), and the checklist brings a task to 0, 25 and 100 percent *)

StatusDates ==
    {"2025-11-09", "2026-01-05", "2026-01-10", "2026-01-11", "2026-03-30",
     "2026-03-31"}

StatusForms ==
    { [start |-> "2026-01-01", end |-> "2026-01-10", owner |-> "Leadership",
       label |-> ""],
      [start |-> "2026-01-10", end |-> "2026-01-01", owner |-> "Leadership",
       label |-> ""] }

NextStatus ==
    \/ \E d \in StatusDates : setCurrentDate(d)
    \/ \E status \in StatusFilters : setStatusFilter(status)
    \/ \E id \in ListedIds, form \in StatusForms : updateTask(id, form)
    \/ toggleSubtask("foundations", "mission")
    \/ \E id \in DOMAIN subtaskDefinitions : toggleAllSubtasks(id, TRUE)

SpecStatus == Init /\ [][NextStatus]_vars

\* the filter panel used on edited tasks: every search term, every offered
\* owner, every status, with one task finished and the date moved once
NextFilter ==
    \/ \E term \in Terms : setSearchTerm(term)
    \/ \E owner \in {"all"} \cup Owners : setOwnerFilter(owner)
    \/ \E status \in StatusFilters : setStatusFilter(status)
    \/ resetFilters
    \/ setCurrentDate("2026-01-05")
    \/ \E id \in ListedIds, form \in EditForms : updateTask(id, form)
    \/ toggleAllSubtasks("product_id", TRUE)

SpecFilter == Init /\ [][NextFilter]_vars

\* the onResetTimelines prop of the rendered GanttView called as an operation,
\* whether or not an override exists
resetOverrides ==
    /\ GanttRendered
    /\ onResetTimelines
    /\ UNCHANGED <<currentDate, searchTerm, ownerFilter, statusFilter,
                   customTasks, deletedTaskIds, subtaskProgress>>
    /\ GanttKept
    /\ lastOp' = "resetOverrides"
    /\ Committed

\* the task store with the reset called in any state
NextReset ==
    \/ \E id \in CustomIds, data \in NewTaskForms :
           Len(customTasks) < MaxCustom /\ GanttView_handleCreateTask(id, data)
    \/ \E id \in ListedIds, form \in EditForms : updateTask(id, form)
    \/ \E id \in ListedIds : deleteTask(id)
    \/ resetOverrides

SpecReset == Init /\ [][NextReset]_vars

-----------------------------------------------------------------------------
(* Loading and saving: what a page load finds in localStorage *)

\* a completion map and a color map that an earlier visit has saved
SavedProgress ==
    [ product_id |-> [naming |-> TRUE, architecture |-> FALSE] ]

SavedColors == Put(defaultCategoryColors, "website", "#ff0000")

\* the contents localStorage can have when the page is opened: each key
\* absent, written by an earlier visit, or holding a text that was cut off
StartupStorage ==
    { [k \in keys |->
          IF k = "subtaskProgress" THEN item[1] ELSE item[2]] :
        keys \in SUBSET {"subtaskProgress", "categoryColors"},
        item \in {JSON_stringify_progress(SavedProgress),
                  Unterminated(JSON_stringify_progress(SavedProgress))}
                 \X {JSON_stringify_colors(SavedColors),
                     Unterminated(JSON_stringify_colors(SavedColors))} }

\* the page is open and App has not rendered yet
InitStored ==
    /\ currentDate \in LoadDates
    /\ searchTerm = ""
    /\ ownerFilter = "all"
    /\ statusFilter = "all"
    /\ taskOverrides = EmptyMap
    /\ customTasks = <<>>
    /\ deletedTaskIds = {}
    /\ subtaskProgress = EmptyMap
    /\ editingTask = NoTask
    /\ taskToDelete = NoTask
    /\ categoryColors = EmptyMap
    /\ storage \in StartupStorage
    /\ appStatus = "loading"
    /\ lastOp = "open"

\* the two lazy initializers and, when neither throws, the two effects of
\* the first render; an exception in an initializer leaves nothing rendered
Load ==
    IF subtaskProgress_loads(storage) /\ categoryColors_loads(storage)
    THEN /\ appStatus' = "running"
         /\ subtaskProgress' = subtaskProgress_initial(storage)
         /\ categoryColors' = categoryColors_initial(storage)
         /\ storage' = Saved(Saved(storage, "categoryColors",
                                   JSON_stringify_colors(categoryColors')),
                             "subtaskProgress", JSON_stringify_progress(subtaskProgress'))
    ELSE /\ appStatus' = "crashed"
         /\ subtaskProgress' = EmptyMap
         /\ categoryColors' = EmptyMap
         /\ UNCHANGED storage

\* first render of App
mount ==
    /\ appStatus = "loading"
    /\ Load
    /\ UNCHANGED <<currentDate, searchTerm, ownerFilter, statusFilter, taskOverrides,
                   customTasks, deletedTaskIds, editingTask, taskToDelete>>
    /\ lastOp' = "mount"

\* history: a reload, and a reload that found a catalog task with subtasks deleted
ReloadLabels == {"reload", "reloadAfterDelete"}

ReloadLabel(deleted) ==
    IF deleted \cap Ids(allProjectTasks) \cap DOMAIN subtaskDefinitions = {}
    THEN "reload"
    ELSE "reloadAfterDelete"

\* the page is reloaded: every useState starts again from its initial value
reload ==
    /\ appStatus \in {"running", "crashed"}
    /\ Load
    /\ currentDate' \in LoadDates
    /\ searchTerm' = ""
    /\ ownerFilter' = "all"
    /\ statusFilter' = "all"
    /\ taskOverrides' = EmptyMap
    /\ customTasks' = <<>>
    /\ deletedTaskIds' = {}
    /\ editingTask' = NoTask
    /\ taskToDelete' = NoTask
    /\ lastOp' = ReloadLabel(deletedTaskIds)

updateCategoryColor(category, color) ==
    /\ appStatus = "running"
    /\ categoryColors' = Put(categoryColors, category, color)
    /\ storage' = useEffect_categoryColors(storage)
    /\ UNCHANGED <<appVars, appStatus>>
    /\ lastOp' = "updateCategoryColor"

resetCategoryColors ==
    /\ appStatus = "running"
    /\ categoryColors' = defaultCategoryColors
    /\ storage' = useEffect_categoryColors(storage)
    /\ UNCHANGED <<appVars, appStatus>>
    /\ lastOp' = "resetCategoryColors"

PickedColors == {"#ff0000", "#6366f1"}

NextPersist ==
    \/ mount
    \/ reload
    \/ \E subtaskId \in SubtaskIds("product_id") : toggleSubtask("product_id", subtaskId)
    \/ toggleSubtask("foundations", "mission")
    \/ \E id \in DOMAIN subtaskDefinitions, checked \in BOOLEAN :
           toggleAllSubtasks(id, checked)
    \/ resetProgress
    \/ \E id \in ListedIds : deleteTask(id)
    \/ \E color \in PickedColors : updateCategoryColor("website", color)
    \/ resetCategoryColors

SpecPersist == InitStored /\ [][NextPersist]_vars

\* a visit from the first render on: the task store, the owner filter, and
\* reloads of the page
NextLifetime ==
    \/ setOwnerFilter("Leadership")
    \/ resetFilters
    \/ \E id \in CustomIds :
           Len(customTasks) < MaxCustom /\ GanttView_handleCreateTask(id, SessionTask)
    \/ \E id \in ListedIds : updateTask(id, SessionForm)
    \/ \E id \in ListedIds : deleteTask(id)
    \/ resetAllEdits
    \/ reload

SpecLifetime == Init /\ [][NextLifetime]_vars

-----------------------------------------------------------------------------
(* Properties of the weighted progress *)

\* positions of the defined subtasks of a task whose completion flag is true
CompleteSubtasks(taskId) ==
    {i \in 1..Len(subtaskDefinitions[taskId]) :
        /\ taskId \in DOMAIN subtaskProgress
        /\ subtaskDefinitions[taskId][i].id \in DOMAIN subtaskProgress[taskId]
        /\ subtaskProgress[taskId][subtaskDefinitions[taskId][i].id] = TRUE}

\* sum of the weights (in thousandths) at a set of positions
RECURSIVE SumWeights(_, _)
SumWeights(taskId, positions) ==
    IF positions = {} THEN 0
    ELSE LET i == CHOOSE j \in positions : TRUE
         IN  subtaskDefinitions[taskId][i].weight
             + SumWeights(taskId, positions \ {i})

\* C1: after any sequence of subtask toggles, check-all/uncheck-all,
\* progress resets and task deletions, the progress of every task id with a
\* subtask-definition entry is round(100 x the sum of the weights of exactly
\* the defined subtasks whose completion flag is true); weights
\* 0.25/0.25/0.2/0.2/0.1 with only the first two complete give 50.
C1_WeightedProgress ==
    /\ \A taskId \in DOMAIN subtaskDefinitions :
          /\ taskId \in DOMAIN progress
          /\ 10 * progress[taskId] - 5
                <= SumWeights(taskId, CompleteSubtasks(taskId))
          /\ SumWeights(taskId, CompleteSubtasks(taskId))
                < 10 * progress[taskId] + 5
    /\ CompleteSubtasks("foundations") = {1, 2} => progress["foundations"] = 50

\* a task was deleted, and the last toggle left exactly the first two
\* subtasks of the five-subtask task complete
C1_Witness ==
    /\ lastOp = "toggleSubtask"
    /\ deletedTaskIds # {}
    /\ CompleteSubtasks("foundations") = {1, 2}
    /\ progress["foundations"] = 50

-----------------------------------------------------------------------------
(* Properties of the status derivation *)

\* the order of the status rules: first match wins
computeStatus(task, percent, date) ==
    IF percent = 100 THEN "completed"
    ELSE IF DayNumber(date) < DayNumber(task.start) THEN "not-started"
    ELSE IF DayNumber(date) > DayNumber(task.end) THEN "overdue"
    ELSE "in-progress"

\* the text of the badge for a status
BadgeLabel(status) ==
    CASE status = "completed"   -> "Completed"
      [] status = "not-started" -> "Not Started"
      [] status = "overdue"     -> "Overdue"
      [] status = "in-progress" -> "In Progress"

CountOf(tasks, prog, status) ==
    Cardinality({i \in 1..Len(tasks) :
        computeStatus(tasks[i], PercentOf(prog, tasks[i].id), currentDate) = status})

StatusOrderIn(counts, dashboard, owner, manager, prog) ==
    /\ counts.completed  = CountOf(dashboard, prog, "completed")
    /\ counts.notStarted = CountOf(dashboard, prog, "not-started")
    /\ counts.overdue    = CountOf(dashboard, prog, "overdue")
    /\ counts.inProgress = CountOf(dashboard, prog, "in-progress")
    /\ \A i \in 1..Len(owner) :
          LET task    == owner[i]
              percent == PercentOf(prog, task.id)
          IN  OwnerView_getTaskStatus(task, percent, currentDate)
                = BadgeLabel(computeStatus(task, percent, currentDate))
    /\ \A i \in 1..Len(manager) :
          LET task    == manager[i]
              percent == PercentOf(prog, task.id)
          IN  task.id \in DOMAIN subtaskDefinitions =>
                ProgressManager_getTaskStatus(task, percent, currentDate)
                  = BadgeLabel(computeStatus(task, percent, currentDate))

\* C2: for every task, percent and reference date the status is decided by
\* first match in the order: percent = 100 completed; reference date before
\* start not-started; reference date after end overdue; otherwise
\* in-progress.  The dashboard counts, the owner view badge and the
\* progress-manager badge follow this order.
C2_StatusOrder ==
    StatusOrderIn(stats, DashboardView_tasks, OwnerView_tasks,
                  ProgressManager_tasks, progress)

\* the reference date is both before the start and after the end of an
\* unfinished task with subtasks that the owner view shows: the order of
\* the rules decides, and the badge says not started
C2_Witness ==
    \E i \in 1..Len(OwnerView_tasks) :
        LET task == OwnerView_tasks[i]
        IN  /\ task.id \in DOMAIN subtaskDefinitions
            /\ ProgressOf(task.id) = 25
            /\ DayNumber(currentDate) < DayNumber(task.start)
            /\ DayNumber(currentDate) > DayNumber(task.end)
            /\ OwnerView_getTaskStatus(task, 25, currentDate) = "Not Started"
            /\ stats.notStarted >= 1

\* C3: for a task with start <= end and percent < 100, on the end date the
\* status is in-progress (the task passes the in-progress status filter and
\* not the overdue one), one day after the end date it is overdue; overdue
\* is only ever given when the reference date is strictly after the end.
C3_EndDateInclusive ==
    \A i \in 1..Len(allTasks) :
        LET task    == allTasks[i]
            percent == ProgressOf(task.id)
            gantt   == GanttView_status(task, percent, currentDate)
            count   == CountdownTracker_status(task, percent, currentDate)
            isIn    == matchesStatus(task, percent, "in-progress", currentDate)
            isOver  == matchesStatus(task, percent, "overdue", currentDate)
            late    == DayNumber(currentDate) - DayNumber(task.end)
        IN  /\ (DayNumber(task.start) <= DayNumber(task.end) /\ percent < 100) =>
                /\ late = 0 => /\ gantt = "in-progress"
                               /\ count = "in-progress"
                               /\ isIn /\ ~isOver
                /\ late = 1 => /\ gantt = "overdue"
                               /\ count = "overdue"
                               /\ isOver /\ ~isIn
            /\ (gantt = "overdue" \/ count = "overdue" \/ isOver) => late > 0

\* the status filter is on in-progress, the reference date is the edited
\* end date of an unfinished task, and the task is listed
C3_Witness ==
    /\ statusFilter = "in-progress"
    /\ currentDate = "2026-01-10"
    /\ \E i \in 1..Len(filteredTasks) :
          /\ filteredTasks[i].start = "2026-01-01"
          /\ filteredTasks[i].end = currentDate
          /\ ProgressOf(filteredTasks[i].id) = 25
          /\ CountdownTracker_status(filteredTasks[i], 25, currentDate) = "in-progress"

CompletedIn(counts, all, listed, prog) ==
    /\ \A i \in 1..Len(all) :
          PercentOf(prog, all[i].id) = 100 =>
             /\ DashboardView_status(all[i], 100, currentDate) = "completed"
             /\ CountdownTracker_status(all[i], 100, currentDate) = "completed"
    /\ counts.completed
          = Cardinality({i \in 1..Len(all) : PercentOf(prog, all[i].id) = 100})
    /\ \A i \in 1..Len(listed) :
          PercentOf(prog, listed[i].id) = 100 =>
             /\ GanttView_status(listed[i], 100, currentDate) = "completed"
             /\ OwnerView_getTaskStatus(listed[i], 100, currentDate) = "Completed"

\* C4: a task whose weighted completion is 100 has the status completed for
\* every reference date, also before its start and after its end, in the
\* dashboard, the Gantt view, the countdown and the owner view.
C4_CompletedAtHundred == CompletedIn(stats, allTasks, filteredTasks, progress)

\* a finished task is shown while the reference date is before its start,
\* and another finished task while the reference date is after its end
C4_Witness ==
    /\ \E i \in 1..Len(filteredTasks) :
          /\ ProgressOf(filteredTasks[i].id) = 100
          /\ DayNumber(currentDate) < DayNumber(filteredTasks[i].start)
          /\ GanttView_status(filteredTasks[i], 100, currentDate) = "completed"
    /\ \E i \in 1..Len(filteredTasks) :
          /\ ProgressOf(filteredTasks[i].id) = 100
          /\ DayNumber(currentDate) > DayNumber(filteredTasks[i].end)
          /\ GanttView_status(filteredTasks[i], 100, currentDate) = "completed"

-----------------------------------------------------------------------------
(* Properties of the task store *)

EditableFields == {"start", "end", "owner", "label"}

\* the stored tasks that are not deleted, catalog first
RECURSIVE NotDeleted(_, _)
NotDeleted(tasks, deleted) ==
    IF tasks = <<>> THEN <<>>
    ELSE (IF Head(tasks).id \in deleted THEN <<>> ELSE <<Head(tasks)>>)
         \o NotDeleted(Tail(tasks), deleted)

\* the value a field of the effective task must have under the overrides
MergedField(base, f, overrides) ==
    IF /\ base.id \in DOMAIN overrides
       /\ f \in DOMAIN overrides[base.id]
       /\ overrides[base.id][f] # ""
    THEN overrides[base.id][f]
    ELSE base[f]

MergedIn(effective, bases, overrides) ==
    /\ Len(effective) = Len(bases)
    /\ \A i \in 1..Len(bases) :
          bases[i].id \in DOMAIN overrides =>
             /\ \A f \in EditableFields :
                   effective[i][f] = MergedField(bases[i], f, overrides)
             /\ effective[i].id = bases[i].id
             /\ effective[i].category = bases[i].category

\* C5: for every non-deleted task with an override entry, each of start,
\* end, owner and label of the effective task is the override's value when
\* that field is present and non-empty and the base (catalog or custom)
\* task's value otherwise; id and category come from the base task (so an
\* override that only sets the owner leaves start, end and label as in the
\* base task).
C5_OverrideMerge ==
    MergedIn(allTasks, NotDeleted(allProjectTasks \o customTasks, deletedTaskIds),
             taskOverrides)

\* a custom task and a catalog task are both edited: the custom task's
\* override sets only the owner (the other fields were saved empty), the
\* catalog task's override sets all four fields
C5_Witness ==
    /\ lastOp = "updateTask"
    /\ \E i \in 1..Len(allTasks) :
          /\ allTasks[i].id \in CustomIds
          /\ allTasks[i].id \in DOMAIN taskOverrides
          /\ taskOverrides[allTasks[i].id].start = ""
          /\ allTasks[i].owner = "Design"
          /\ allTasks[i].start = KICKOFF
          /\ allTasks[i].label = "Launch Party"
    /\ \E i \in 1..Len(allTasks) :
          /\ allTasks[i].id \in DOMAIN taskOverrides
          /\ allTasks[i].category # NoCategory
          /\ allTasks[i].label = "Brand Core"
          /\ allTasks[i].start = "2026-01-10"

\* the effects of deleting taskId
DeleteEffects(taskId) ==
    /\ taskId \notin deletedTaskIds
    /\ deletedTaskIds' = deletedTaskIds \cup {taskId}
    /\ DOMAIN taskOverrides' = (DOMAIN taskOverrides) \ {taskId}
    /\ \A id \in DOMAIN taskOverrides' : taskOverrides'[id] = taskOverrides[id]
    /\ DOMAIN subtaskProgress' = (DOMAIN subtaskProgress) \ {taskId}
    /\ \A id \in DOMAIN subtaskProgress' : subtaskProgress'[id] = subtaskProgress[id]
    /\ taskId \notin Ids(AllTasksOf(taskOverrides', customTasks', deletedTaskIds'))
    /\ UNCHANGED <<customTasks, currentDate, searchTerm, ownerFilter, statusFilter>>

\* C6: deleteTask(id) has exactly these effects: id is added to the
\* deletion set, the override entry and the subtask-completion entry of id
\* are removed, and id is no longer in the effective task list; the
\* override and completion entries of every other id are unchanged.
C6_DeleteEffects ==
    [][lastOp' \in {"deleteTask", "confirmDelete"}
          => \E taskId \in Ids(allTasks) : DeleteEffects(taskId)]_vars

\* the deletion of the task with the completion entry was just confirmed;
\* another task still has its override
C6_Witness ==
    /\ lastOp = "confirmDelete"
    /\ "foundations" \in deletedTaskIds
    /\ "foundations" \notin DOMAIN subtaskProgress
    /\ "foundations" \notin DOMAIN taskOverrides
    /\ "foundations" \notin Ids(allTasks)
    /\ "product_id" \in DOMAIN taskOverrides
    /\ "product_id" \in Ids(allTasks)

\* C7: no task id of the deletion set appears in the effective task list,
\* in the filtered task list, or in the task list handed to a view or to
\* the export, whatever the overrides, custom tasks, filters and subtask
\* completion are.
C7_DeletedHidden ==
    \A tasks \in {allTasks, filteredTasks, DashboardView_tasks, GanttView_tasks,
                  CountdownTracker_tasks, OwnerView_tasks, ProgressManager_tasks,
                  ExportDialog_tasks} :
        Ids(tasks) \cap deletedTaskIds = {}

\* a catalog task and a custom task are deleted while another task is
\* edited, a subtask is ticked, the owner filter is set and rows are listed
C7_Witness ==
    /\ deletedTaskIds \cap CustomIds # {}
    /\ deletedTaskIds \ CustomIds # {}
    /\ taskOverrides # EmptyMap
    /\ "product_id" \in DOMAIN subtaskProgress
    /\ ownerFilter # "all"
    /\ filteredTasks # <<>>
    /\ Len(exportToCSV_rows) = Len(allTasks)

\* C8: once a task id is in the deletion set, no createTask, updateTask,
\* deleteTask, resetOverrides, subtask toggle, progress reset, filter change
\* or reference-date change removes it from the deletion set or puts it
\* back into the effective task list.
C8_DeletionIrreversible ==
    [][\A taskId \in deletedTaskIds :
          /\ taskId \in deletedTaskIds'
          /\ taskId \notin Ids(AllTasksOf(taskOverrides', customTasks', deletedTaskIds'))]_vars

\* a deleted catalog task is still deleted after the reference date moved,
\* a custom task was created and all edits were reset
C8_Witness ==
    /\ lastOp = "resetAllEdits"
    /\ deletedTaskIds \ CustomIds # {}
    /\ customTasks # <<>>
    /\ currentDate = "2026-01-05"
    /\ deletedTaskIds \cap Ids(allTasks) = {}

\* every catalog task that is not deleted has its catalog values
CatalogValuesIn(effective, deleted) ==
    \A k \in 1..Len(allProjectTasks) :
        allProjectTasks[k].id \notin deleted =>
           \E i \in 1..Len(effective) :
              /\ effective[i].id = allProjectTasks[k].id
              /\ \A f \in EditableFields : effective[i][f] = allProjectTasks[k][f]

\* C9: resetOverrides() empties the override map; immediately afterwards
\* every non-deleted catalog task's effective start, end, owner and label
\* equal its catalog values, whatever edits were made before.
C9_ResetRestoresCatalog ==
    [][lastOp' = "resetAllEdits"
          => /\ DOMAIN taskOverrides' = {}
             /\ CatalogValuesIn(
                    AllTasksOf(taskOverrides', customTasks', deletedTaskIds'),
                    deletedTaskIds')]_vars

\* all edits were just reset while one catalog task is deleted
C9_Witness ==
    /\ lastOp = "resetAllEdits"
    /\ taskOverrides = EmptyMap
    /\ Cardinality(deletedTaskIds \ CustomIds) = 1
    /\ CatalogValuesIn(allTasks, deletedTaskIds)

\* the effective custom tasks selected by Keep are the same before and
\* after the step
CustomTasksKept(Keep(_)) ==
    \E before \in {allTasks} :
    \E after \in {AllTasksOf(taskOverrides', customTasks', deletedTaskIds')} :
        /\ Len(after) = Len(before)
        /\ \A i \in 1..Len(before) :
              (before[i].id \in CustomIds /\ Keep(before[i].id)) =>
                 /\ after[i].id = before[i].id
                 /\ \A f \in EditableFields : after[i][f] = before[i][f]

\* the effective custom tasks that had an override have the values they
\* were created with after the step
EditedCustomTasksReverted ==
    \E after \in {AllTasksOf(taskOverrides', customTasks', deletedTaskIds')} :
    \E stored \in {NotDeleted(allProjectTasks \o customTasks, deletedTaskIds)} :
        /\ Len(after) = Len(stored)
        /\ \A i \in 1..Len(stored) :
              (stored[i].id \in CustomIds /\ stored[i].id \in DOMAIN taskOverrides) =>
                 \A f \in EditableFields : after[i][f] = stored[i][f]

Always(taskId) == TRUE

NotEdited(taskId) == taskId \notin DOMAIN taskOverrides

\* C10: resetOverrides() leaves the deletion set and the stored custom-task
\* list as they were, and every non-deleted custom task without an override
\* entry keeps its effective start, end, owner and label; a custom task
\* that was edited through updateTask goes back to the values it was
\* created with.
C10_ResetKeepsUneditedCustom ==
    [][lastOp' = "resetAllEdits"
          => /\ deletedTaskIds' = deletedTaskIds
             /\ customTasks' = customTasks
             /\ CustomTasksKept(NotEdited)
             /\ EditedCustomTasksReverted]_vars

\* C10 as stated: after resetOverrides() every non-deleted custom task,
\* also one edited through updateTask, has the same effective start, end,
\* owner and label as before, and the deletion set and the stored
\* custom-task list are unchanged.
C10_ResetKeepsEveryCustom ==
    [][lastOp' = "resetAllEdits"
          => /\ deletedTaskIds' = deletedTaskIds
             /\ customTasks' = customTasks
             /\ CustomTasksKept(Always)]_vars

\* all edits were just reset while a custom task is listed and a task is
\* deleted
C10_Witness ==
    /\ lastOp = "resetAllEdits"
    /\ deletedTaskIds # {}
    /\ \E i \in 1..Len(filteredTasks) :
          /\ filteredTasks[i].id \in CustomIds
          /\ filteredTasks[i].owner = "Leadership"
          /\ filteredTasks[i].label = "Launch Party"

-----------------------------------------------------------------------------
(* Properties of task creation *)

\* the labels of the model that are empty after trimming
BlankLabels == {"", "  "}

\* C11: createTask with a label that is empty after trimming is rejected:
\* the custom-task list, the override map, the deletion set and the subtask
\* completion are unchanged and the effective task list is as before; with
\* a non-empty trimmed label exactly one task is appended to the custom-task
\* list.
C11_CreateValidatesLabel ==
    [][/\ lastOp' = "createRejected" =>
             /\ UNCHANGED <<customTasks, taskOverrides, deletedTaskIds, subtaskProgress>>
             /\ AllTasksOf(taskOverrides', customTasks', deletedTaskIds') = allTasks
       /\ lastOp' = "createTask" =>
             /\ Len(customTasks') = Len(customTasks) + 1
             /\ SubSeq(customTasks', 1, Len(customTasks)) = customTasks
             /\ customTasks'[Len(customTasks')].label \notin BlankLabels
             /\ UNCHANGED <<taskOverrides, deletedTaskIds, subtaskProgress>>
       /\ customTasks' # customTasks => lastOp' = "createTask"]_vars

\* a create with a blank label was just rejected, after a create that was
\* accepted and an edit
C11_Witness ==
    /\ lastOp = "createRejected"
    /\ Len(customTasks) = 1
    /\ customTasks[1].label = "Launch Party"
    /\ taskOverrides # EmptyMap

\* the ids of a task list, in order
RECURSIVE IdSeq(_)
IdSeq(tasks) ==
    IF tasks = <<>> THEN <<>> ELSE <<Head(tasks).id>> \o IdSeq(Tail(tasks))

\* a sequence of ids without the ids of a set
RECURSIVE WithoutIds(_, _)
WithoutIds(ids, gone) ==
    IF ids = <<>> THEN <<>>
    ELSE (IF Head(ids) \in gone THEN <<>> ELSE <<Head(ids)>>)
         \o WithoutIds(Tail(ids), gone)

\* catalog tasks first, in catalog order, then the custom tasks as stored
CatalogThenCustom(effective, customs, deleted) ==
    IdSeq(effective)
       = WithoutIds(IdSeq(allProjectTasks) \o IdSeq(customs), deleted)

\* C12: the effective task list is ordered catalog tasks first, in catalog
\* order, followed by the custom tasks in creation order (the stored list
\* only ever grows at its end); updateTask, deleteTask and resetOverrides
\* never change the relative order of two tasks that both remain.
C12_CatalogThenCreationOrder ==
    /\ CatalogThenCustom(allTasks, customTasks, deletedTaskIds)
    /\ [][\E after \in {AllTasksOf(taskOverrides', customTasks', deletedTaskIds')} :
            /\ CatalogThenCustom(after, customTasks', deletedTaskIds')
            /\ \/ customTasks' = customTasks
               \/ /\ Len(customTasks') = Len(customTasks) + 1
                  /\ SubSeq(customTasks', 1, Len(customTasks)) = customTasks
            /\ lastOp' \in {"updateTask", "deleteTask", "resetAllEdits"} =>
                  IdSeq(after) = WithoutIds(IdSeq(allTasks), deletedTaskIds')]_vars

\* two custom tasks with different ids were created, the first catalog task
\* was deleted last: the list is the other catalog tasks and then the
\* custom tasks in the order of their creation
C12_Witness ==
    /\ lastOp = "deleteTask"
    /\ Len(customTasks) = 2
    /\ customTasks[1].id # customTasks[2].id
    /\ customTasks[1].start # customTasks[2].start
    /\ IdSeq(allTasks) = <<"product_id", "go_live", customTasks[1].id, customTasks[2].id>>

\* the ids that a task list holds more than once
RepeatedIds(tasks) ==
    {tasks[i].id : i \in {k \in 1..Len(tasks) :
                            \E j \in (k + 1)..Len(tasks) : tasks[j].id = tasks[k].id}}

\* C13: after any sequence of createTask, updateTask, deleteTask and
\* resetOverrides, two tasks of the effective task list have the same id
\* only if both are custom tasks that createTask gave the same id: catalog
\* ids are pairwise distinct and no generated id is a catalog id.
C13_DuplicatesOnlyAmongCustom ==
    /\ RepeatedIds(allProjectTasks) = {}
    /\ Ids(customTasks) \cap Ids(allProjectTasks) = {}
    /\ RepeatedIds(allTasks) \subseteq RepeatedIds(customTasks)
    /\ RepeatedIds(customTasks) = {} => RepeatedIds(allTasks) = {}

\* C13 as stated: the effective task list never contains two tasks with
\* the same id.
C13_NoDuplicateIds == RepeatedIds(allTasks) = {}

\* two custom tasks with different ids and the three catalog tasks are all
\* in the effective list after an edit and a reset
C13_Witness ==
    /\ lastOp = "resetAllEdits"
    /\ Len(customTasks) = 2
    /\ customTasks[1].id # customTasks[2].id
    /\ Len(allTasks) = 5
    /\ RepeatedIds(allTasks) = {}

\* whole days from date a to date b, for well-formed dates
Days(a, b) == DayNumber(b) - DayNumber(a)

AtLeast(floor, n) == IF n < floor THEN floor ELSE n

\* length and offset of a task are the clamped day counts of its dates
ClampedRow(task) ==
    /\ task.length >= 1
    /\ task.offset >= 0
    /\ (task.start # "" /\ task.end # "") =>
          /\ task.length = AtLeast(1, Days(task.start, task.end))
          /\ task.offset = AtLeast(0, Days(KICKOFF, task.start))

\* C14: every effective task has length = max(1, days(start, end)) and
\* offset = max(0, days(kickoff, start)); length >= 1 and offset >= 0 in
\* every reachable state, also for a task whose start equals its end and
\* after an updateTask or createTask that puts the end before the start.
C14_LengthAndOffsetClamped ==
    \A i \in 1..Len(allTasks) : ClampedRow(allTasks[i])

(***************************************************************************)
(* Properties of the progress map                                          *)
(***************************************************************************)

Percentages == 0..100

\* C15: the progress of every task of the effective task list is an integer
\* between 0 and 100 in every reachable state, whichever subtasks of the
\* static subtask table are checked; so is every entry of the progress map.
C15_ProgressIsPercentage ==
    /\ \A i \in 1..Len(allTasks) : ProgressOf(allTasks[i].id) \in Percentages
    /\ \A id \in DOMAIN progress : progress[id] \in Percentages

C15_Witness ==
    /\ lastOp = "toggleSubtask"
    /\ Ids(allTasks) = {"foundations", "product_id"}
    /\ ProgressOf("foundations") = 100
    /\ ProgressOf("product_id") = 50

\* the effective tasks that have no entry in the subtask table
WithoutSubtasks(tasks) ==
    {tasks[i].id : i \in {k \in 1..Len(tasks) : tasks[k].id \notin DOMAIN subtaskDefinitions}}

\* C16: every effective task without a subtask-definition entry, so every
\* task made by createTask, has progress 0 in every reachable state: the
\* progress map holds the number 0 for it after every sequence of operations.
C16_NoSubtasksNoProgress ==
    /\ \A i \in 1..Len(customTasks) : customTasks[i].id \notin DOMAIN subtaskDefinitions
    /\ \A id \in WithoutSubtasks(allTasks) :
          /\ Has(progress, id)
          /\ progress[id] = 0
          /\ ProgressOf(id) = 0

C16_Witness ==
    /\ lastOp = "toggleSubtask"
    /\ ProgressOf("product_id") = 50
    /\ Has(taskOverrides, "go_live")
    /\ \E id \in CustomIds : WithoutSubtasks(allTasks) = {"go_live", id}

(***************************************************************************)
(* Properties of the filter                                                *)
(***************************************************************************)

\* two characters that are equal or differ only in case
SameIgnoringCase(a, b) ==
    \/ a = b
    \/ \E i \in 1..Len(UpperCase) : {a, b} = {UpperCase[i], LowerCase[i]}

\* term occurs in text at some position, case ignored
OccursIn(text, term) ==
    \E t \in {Chars(text)}, n \in {Chars(term)} :
        \E shift \in 0..(Len(t) - Len(n)) :
            \A k \in 1..Len(n) : SameIgnoringCase(t[shift + k], n[k])

SearchHolds(task, term) ==
    term = "" \/ OccursIn(task.label, term) \/ OccursIn(task.owner, term)

OwnerHolds(task, owner) == owner = "all" \/ owner = task.owner

StatusHolds(task, percent, status, date) ==
    \/ status = "all"
    \/ status = "completed" /\ percent = 100
    \/ /\ status = "in-progress"
       /\ DayNumber(task.start) <= DayNumber(date)
       /\ DayNumber(date) <= DayNumber(task.end)
       /\ percent < 100
    \/ status = "not-started" /\ DayNumber(date) < DayNumber(task.start)
    \/ status = "overdue" /\ DayNumber(date) > DayNumber(task.end) /\ percent < 100

Retained(task, prog, term, owner, status, date) ==
    /\ SearchHolds(task, term)
    /\ OwnerHolds(task, owner)
    /\ StatusHolds(task, PercentOf(prog, task.id), status, date)

\* the tasks of a list that satisfy Keep, as a set
Satisfying(tasks, Keep(_)) == {tasks[i] : i \in {k \in 1..Len(tasks) : Keep(tasks[k])}}

Members(tasks) == {tasks[i] : i \in 1..Len(tasks)}

RetainedExactly(filtered, tasks, prog, term, owner, status, date) ==
    LET Keep(task) == Retained(task, prog, term, owner, status, date)
    IN  /\ Members(filtered) = Satisfying(tasks, Keep)
        /\ Len(filtered) = Cardinality(Satisfying(tasks, Keep))

\* C17: the filter retains a task exactly when the search predicate (term
\* empty, or a case-insensitive substring of the label or of the owner), the
\* owner predicate ("all" or the task's owner exactly) and the status
\* predicate of the chosen status filter all hold; when no task satisfies
\* the three, the result is the empty list.
C17_FilterIsConjunction ==
    RetainedExactly(filteredTasks, allTasks, progress, searchTerm, ownerFilter,
                    statusFilter, currentDate)

C17_Witness ==
    /\ searchTerm = "lead"
    /\ ownerFilter = "Leadership"
    /\ statusFilter = "overdue"
    /\ Len(allTasks) = 3
    /\ Ids(filteredTasks) = {"foundations"}
    /\ \E i \in 1..3 : allTasks[i].id = "product_id" /\ allTasks[i].owner = "Marketing"

\* sub is obtained from full by leaving elements out
RECURSIVE IsSubsequence(_, _)
IsSubsequence(sub, full) ==
    IF sub = <<>> THEN TRUE
    ELSE IF full = <<>> THEN FALSE
    ELSE IF Head(sub) = Head(full) THEN IsSubsequence(Tail(sub), Tail(full))
    ELSE IsSubsequence(sub, Tail(full))

NoRepeats(tasks) == \A i, j \in 1..Len(tasks) : tasks[i] = tasks[j] => i = j

\* C18: for every filter setting the filtered list is a subsequence of the
\* effective task list: only effective tasks, each at most once, in the
\* relative order they have in the effective list.
C18_FilteredIsSubsequence ==
    /\ IsSubsequence(filteredTasks, allTasks)
    /\ Members(filteredTasks) \subseteq Members(allTasks)
    /\ NoRepeats(filteredTasks)

C18_Witness ==
    /\ ownerFilter = "Leadership"
    /\ statusFilter = "overdue"
    /\ IdSeq(allTasks) = <<"foundations", "product_id", "go_live">>
    /\ IdSeq(filteredTasks) = <<"foundations", "go_live">>

(***************************************************************************)
(* Properties of the status filter                                         *)
(***************************************************************************)

ExclusiveStatusFilters == {"completed", "in-progress", "overdue"}

\* the status filter keeps exactly the tasks whose computed status it names
FilterAgreesWithStatus(filtered, tasks, prog, status, date) ==
    \A i \in 1..Len(tasks) :
        tasks[i] \in Members(filtered)
            <=> computeStatus(tasks[i], PercentOf(prog, tasks[i].id), date) = status

\* C19: under the status filter completed, in-progress or overdue (search
\* and owner filter left open) a task is retained exactly when computeStatus
\* of the task, its percent and the reference date is that status, also
\* for a task whose end is before its start.
C19_StatusFilterIsComputeStatus ==
    (statusFilter \in ExclusiveStatusFilters /\ searchTerm = "" /\ ownerFilter = "all")
        => FilterAgreesWithStatus(filteredTasks, allTasks, progress, statusFilter, currentDate)

\* what the filter gives for another status filter, everything else as it is
FilteredUnder(status) ==
    FilterTasks(allTasks, progress, searchTerm, ownerFilter, status, currentDate)

StartsAfter(task, date) == DayNumber(date) < DayNumber(task.start)

\* C20: the not-started filter retains every task whose start is after the
\* reference date, whatever its percent (and no other task); a task at 100%
\* whose start is after the reference date is retained under the completed
\* filter and under the not-started filter alike.
C20_NotStartedIgnoresPercent ==
    (searchTerm = "" /\ ownerFilter = "all") =>
        /\ statusFilter = "not-started" =>
              \A i \in 1..Len(allTasks) :
                  allTasks[i] \in Members(filteredTasks)
                      <=> StartsAfter(allTasks[i], currentDate)
        /\ \A i \in 1..Len(allTasks) :
              (ProgressOf(allTasks[i].id) = 100 /\ StartsAfter(allTasks[i], currentDate))
                  => /\ allTasks[i] \in Members(FilteredUnder("completed"))
                     /\ allTasks[i] \in Members(FilteredUnder("not-started"))
                     /\ statusFilter \in {"completed", "not-started"}
                            => allTasks[i] \in Members(filteredTasks)

C20_Witness ==
    /\ lastOp = "setStatusFilter"
    /\ statusFilter = "not-started"
    /\ currentDate = "2025-11-09"
    /\ ProgressOf("foundations") = 100
    /\ ProgressOf("product_id") = 0
    /\ IdSeq(filteredTasks) = IdSeq(allTasks)
    /\ IdSeq(FilteredUnder("completed")) = <<"foundations">>

(***************************************************************************)
(* Properties of the export                                                *)
(***************************************************************************)

\* the CSV record of a task
CsvRecord(task, prog) ==
    <<task.label, task.start, task.end, task.length, task.owner, PercentOf(prog, task.id)>>

\* a header record, then one record per task of the list, in its order
CsvOf(records, tasks, prog) ==
    /\ Len(records) = 1 + Len(tasks)
    /\ records[1] = exportToCSV_headers
    /\ \A i \in 1..Len(tasks) : records[i + 1] = CsvRecord(tasks[i], prog)

\* C21 as stated: the CSV export has a header row and then exactly one row
\* per task of the current filtered view, in the view's order, so tasks
\* excluded by an active search, owner or status filter are not exported.
C21_ExportIsFilteredView == CsvOf(exportToCSV_records, filteredTasks, progress)

\* C21, amended: the CSV export has a header row and then exactly one row
\* per task of the effective task list, in that list's order, whatever the
\* filters are: a task excluded by an active filter is exported all the same.
C21_ExportIsEffectiveList == CsvOf(exportToCSV_records, allTasks, progress)

C21_Witness ==
    /\ searchTerm = "LIVE"
    /\ ownerFilter = "Design"
    /\ IdSeq(filteredTasks) = <<"go_live">>
    /\ Len(exportToCSV_records) = 4
    /\ exportToCSV_records[2][1] = "Brand Core"
    /\ exportToCSV_records[4][5] = "Design"

(***************************************************************************)
(* Properties of loading and saving                                        *)
(***************************************************************************)

\* the item under the key is there and is not complete JSON
Malformed(store, key) == Has(store, key) /\ Throws(store[key])

\* C22: when the item saved under subtaskProgress or under categoryColors is
\* malformed JSON at startup, loading does not fail: App runs, and the store
\* of the malformed item holds its complete built-in default (the sample
\* completion data, the default category colors), not a partly parsed value.
C22_MalformedFallsBackToDefault ==
    [][lastOp' \in {"mount"} \cup ReloadLabels =>
          /\ appStatus' = "running"
          /\ Malformed(storage, "subtaskProgress") => subtaskProgress' = SampleProgress
          /\ Malformed(storage, "categoryColors") => categoryColors' = defaultCategoryColors]_vars

\* C23: after any sequence of subtask toggles, check-all and uncheck-all,
\* progress resets, task deletions and category-color updates and resets, a
\* reload gives subtaskProgress and categoryColors exactly the values they
\* had just before it; a first render takes the built-in default of a store
\* only when its key is absent, and otherwise the saved value, so an empty
\* completion map stays empty over a reload.
C23_ReloadRestoresStores ==
    [][/\ (lastOp' \in ReloadLabels /\ appStatus = "running") =>
              /\ appStatus' = "running"
              /\ subtaskProgress' = subtaskProgress
              /\ categoryColors' = categoryColors
       /\ (lastOp' = "mount" /\ appStatus' = "running") =>
              /\ subtaskProgress' =
                     IF Has(storage, "subtaskProgress") THEN SavedProgress ELSE SampleProgress
              /\ categoryColors' =
                     IF Has(storage, "categoryColors") THEN SavedColors
                     ELSE defaultCategoryColors]_vars

C23_Witness ==
    /\ lastOp \in ReloadLabels
    /\ appStatus = "running"
    /\ subtaskProgress = EmptyMap
    /\ categoryColors = SavedColors
    /\ currentDate = "2026-03-31"

(***************************************************************************)
(* Properties of the reset of all edits                                    *)
(***************************************************************************)

\* C24: resetOverrides is idempotent: a second call right after a first one
\* leaves the override map, the custom tasks, the deletion set and the
\* effective task list as the first call left them.
C24_ResetIdempotent ==
    [][(lastOp = "resetOverrides" /\ lastOp' = "resetOverrides") =>
          /\ UNCHANGED <<taskOverrides, customTasks, deletedTaskIds>>
          /\ AllTasksOf(taskOverrides', customTasks', deletedTaskIds') = allTasks]_vars

C24_Witness ==
    /\ lastOp = "resetOverrides"
    /\ ENABLED resetOverrides
    /\ taskOverrides = EmptyMap
    /\ customTasks # <<>>
    /\ deletedTaskIds = {"product_id"}
    /\ Len(allTasks) = 3

(***************************************************************************)
(* Properties of the stores of a deleted task                              *)
(***************************************************************************)

\* C25: in every reachable state no id of the deletion set has an entry in
\* the override map or in the subtask-completion map; once a task is
\* deleted, no later action (saving an edit dialog that was opened before,
\* a toggle, check-all, a reset) makes such an entry again.
C25_DeletedHaveNoEntries ==
    \A id \in deletedTaskIds : ~Has(taskOverrides, id) /\ ~Has(subtaskProgress, id)

(***************************************************************************)
(* Properties of the status across the views                               *)
(***************************************************************************)

\* the countdown view calls a task that has not started "upcoming"
CountdownAsStatus(status) == IF status = "upcoming" THEN "not-started" ELSE status

ViewsAgreeOn(task, percent, date) ==
    \E status \in {DashboardView_status(task, percent, date)} :
        /\ GanttView_status(task, percent, date) = status
        /\ CountdownAsStatus(CountdownTracker_status(task, percent, date)) = status
        /\ OwnerView_getTaskStatus(task, percent, date) = BadgeLabel(status)
        /\ ProgressManager_getTaskStatus(task, percent, date) = BadgeLabel(status)

\* C26: the Gantt view, the countdown view (upcoming read as not-started),
\* the owner view, the progress manager and the dashboard derive the same
\* status for the same task, percent and reference date, also for a task
\* whose end is before its start with the reference date between the two.
C26_ViewsAgreeOnStatus ==
    \A i \in 1..Len(allTasks) :
        ViewsAgreeOn(allTasks[i], ProgressOf(allTasks[i].id), currentDate)

(***************************************************************************)
(* Properties of a reload after a deletion                                 *)
(***************************************************************************)

CatalogWithSubtasks == Ids(allProjectTasks) \cap DOMAIN subtaskDefinitions

StoreOperations == {"createTask", "createRejected", "updateTask", "deleteTask", "resetAllEdits"}

\* createTask, updateTask, deleteTask and resetOverrides happen only while
\* the filtered task list is not empty
StoreOperationsNeedRows == lastOp' \in StoreOperations => filteredTasks # <<>>

\* the effective task list is empty before the step and after it
StaysEmpty ==
    allTasks = <<>> => AllTasksOf(taskOverrides', customTasks', deletedTaskIds') = <<>>

AllPositions(taskId) == 1..Len(subtaskDefinitions[taskId])

\* C29: for every task with subtask definitions, in every reachable
\* completion state, the progress is 100 exactly when every defined subtask
\* is marked complete and 0 exactly when none is; a Check All or Uncheck All
\* step leaves its task at 100 or at 0 and the other tasks as they were.
C29_FullAndEmptyChecklists ==
    /\ [](\A taskId \in DOMAIN subtaskDefinitions :
             /\ progress[taskId] = 100 <=> CompleteSubtasks(taskId) = AllPositions(taskId)
             /\ progress[taskId] = 0 <=> CompleteSubtasks(taskId) = {})
    /\ [][lastOp' = "toggleAllSubtasks" =>
             \E taskId \in DOMAIN subtaskDefinitions :
                 \E after \in {ProgressMap(subtaskProgress',
                                  AllTasksOf(taskOverrides', customTasks', deletedTaskIds'))} :
                     /\ after[taskId] \in {0, 100}
                     /\ Has(subtaskProgress', taskId)
                     /\ DOMAIN subtaskProgress'[taskId] = SubtaskIds(taskId)
                     /\ after[taskId] = 100 <=>
                            \A st \in SubtaskIds(taskId) : subtaskProgress'[taskId][st]
                     /\ \A other \in (DOMAIN subtaskDefinitions) \ {taskId} :
                            after[other] = progress[other]]_vars

C29_Witness ==
    /\ lastOp = "toggleAllSubtasks"
    /\ ProgressOf("foundations") = 100
    /\ Has(subtaskProgress, "product_id")
    /\ ProgressOf("product_id") = 0

-----------------------------------------------------------------------------
(* C30: the dashboard's overall progress and the overall percentage of the *)
(* PDF summary are integers between 0 and 100 in every reachable state,    *)
(* also when every task has been deleted and the effective list is empty.  *)
C30_OverallPercentagesDefined ==
    /\ DashboardView_overallProgress \in 0..100
    /\ exportToPDF_avgProgress \in 0..100

\* the same statement for the states with at least one effective task
C30_DefinedWithTasks ==
    allTasks # <<>> => C30_OverallPercentagesDefined

=============================================================================
